---- MODULE Spec2Model ----
(***************************************************************************)
(* Model of pl_bolts: the CPCV2 self-supervised module, the LitMNISTModel  *)
(* template and the pretrained-weights helper.                             *)
(*                                                                         *)
(* Tensors are records [ok, shape, data]: shape is the size tuple, data    *)
(* the elements in row-major (contiguous) order.  A failed tensor          *)
(* operation yields TensorError.                                           *)
(***************************************************************************)
EXTENDS Integers, Sequences, FiniteSets, TLC

\* ---------------------------------------------------------------- bounds
MaxB == 2
MaxC == 3
MaxPatches == 10

\* ------------------------------------------------------ tensor primitives
None == "None"

\* the size of a tensor, or the failure of the operation that made it
Shape(shape) == [ok |-> TRUE, shape |-> shape]
ShapeError == [ok |-> FALSE, shape |-> <<>>]

\* a tensor with its elements
Tensor(shape, data) == [ok |-> TRUE, shape |-> shape, data |-> data]
TensorError == [ok |-> FALSE, shape |-> <<>>, data |-> <<>>]

RECURSIVE Numel(_)
Numel(shape) ==
    IF shape = <<>> THEN 1 ELSE Head(shape) * Numel(Tail(shape))

\* row-major strides: the linear offset of a 0-based index tuple
RECURSIVE Offset(_, _)
Offset(shape, idx) ==
    IF shape = <<>> THEN 0
    ELSE Head(idx) * Numel(Tail(shape)) + Offset(Tail(shape), Tail(idx))

At(T, idx) == T.data[1 + Offset(T.shape, idx)]

\* Tensor.squeeze(-1): drops the last dimension when it has size 1; the
\* elements stay where they are
Squeeze_last(S) ==
    IF ~S.ok THEN ShapeError
    ELSE LET n == Len(S.shape) IN
         IF n > 0 /\ S.shape[n] = 1
         THEN Shape(SubSeq(S.shape, 1, n - 1))
         ELSE S

\* int(math.sqrt(n))
ISqrt(n) == CHOOSE k \in 0..n : k * k <= n /\ (k + 1) * (k + 1) > n

RECURSIVE KnownProd(_)
KnownProd(shape) ==
    IF shape = <<>> THEN 1
    ELSE (IF Head(shape) = -1 THEN 1 ELSE Head(shape)) * KnownProd(Tail(shape))

\* a mis-implemented view that floors instead of rejecting a remainder
View_NoCheck(S, shape) ==
    IF ~S.ok THEN ShapeError
    ELSE LET known == KnownProd(shape)
             n     == Numel(S.shape)
         IN  IF known = 0 THEN ShapeError
             ELSE Shape([i \in 1..Len(shape) |->
                           IF shape[i] = -1 THEN n \div known ELSE shape[i]])

\* Tensor.view(*shape) with one inferred (-1) dimension, on a contiguous
\* tensor: the element order is kept, the size must divide evenly
View(S, shape) ==
    IF ~S.ok THEN ShapeError
    ELSE LET known == KnownProd(shape)
             n     == Numel(S.shape)
         IN  IF known = 0 \/ n % known # 0 THEN ShapeError
             ELSE Shape([i \in 1..Len(shape) |->
                           IF shape[i] = -1 THEN n \div known ELSE shape[i]])

\* Tensor.permute(0, 2, 1) of a 3-D tensor: the sizes
Permute021(S) ==
    IF ~S.ok \/ Len(S.shape) # 3 THEN ShapeError
    ELSE Shape(<<S.shape[1], S.shape[3], S.shape[2]>>)

\* a permute that relabels the sizes but forgets to move the elements
Permute021Data_NoMove(shape, data) == data

\* Tensor.permute(0, 2, 1).contiguous() of a 3-D tensor of size `shape`:
\* the elements in their new row-major order
Permute021Data(shape, data) ==
    LET d0 == shape[1]
        d1 == shape[2]
        d2 == shape[3]
    IN  [n \in 1..(d0 * d1 * d2) |->
            LET m == n - 1
                i == m \div (d2 * d1)
                k == (m % (d2 * d1)) \div d1
                j == m % d1
            IN  data[1 + i * d1 * d2 + j * d2 + k]]

\* CPCV2.__recover_z_shape(Z, b): the sizes after each of its steps
RecoverSteps(S, b) ==
    LET Z1 == Squeeze_last(S) IN
    IF ~Z1.ok \/ Len(Z1.shape) < 2
    THEN [viewed |-> ShapeError, out |-> ShapeError]
    ELSE LET nb_feats == ISqrt(Z1.shape[1] \div b)
             Z2 == View(Z1, <<b, -1, Z1.shape[2]>>)
             Z3 == Permute021(Z2)
         IN  [viewed |-> Z2, out |-> View(Z3, <<b, -1, nb_feats, nb_feats>>)]

\* CPCV2.__recover_z_shape(Z, b): the size of the result
RecoverShape(S, b) == RecoverSteps(S, b).out

\* CPCV2.__recover_z_shape(Z, b): the result with its elements; squeeze and
\* view keep the element order, permute(...).contiguous() rearranges it
RecoverZShape(Z, b) ==
    LET steps == RecoverSteps(Shape(Z.shape), b) IN
    IF ~Z.ok \/ ~steps.out.ok THEN TensorError
    ELSE Tensor(steps.out.shape, Permute021Data(steps.viewed.shape, Z.data))

\* the size of an encoder output on n patches with c output channels:
\* one channel vector per patch
EncoderOutputShape(n, c) == Shape(<<n, c, 1, 1>>)

\* an encoder output; every element carries a distinct label so that
\* positions can be traced
EncoderOutput(n, c) ==
    Tensor(EncoderOutputShape(n, c).shape, [i \in 1..(n * c) |-> i])

\* -------------------------------------------------- CPCV2: configuration
MaxStepPatches == 2
MaxLoss == 1

\* torch.zeros((2 * 49, 3, patch_size, patch_size)) in __compute_final_nb_c
DummyB == 2
DummyPatches == 49

\* a constructor argument that is either a str or an nn.Module instance
Str(s) == [isstr |-> TRUE, v |-> s]
Module(kind) == [isstr |-> FALSE, v |-> kind]

SupportedDatasets == {"cifar10", "stl10", "imagenet128"}
DatasetNames == SupportedDatasets \cup {"mnist"}
EncoderArgs == {Str("cpc_encoder"), Str("resnet18"),
                Module("CPCResNet101"), Module("torchvision")}
PretrainedNames == {"resnet18"}

\* nb_classes of the three dataset tables
NumClasses(name) == IF name = "imagenet128" THEN 1000 ELSE 10

\* the record save_hyperparameters() captures from the constructor call
InitArgs(encoder, online_ft, dataset, amdim_task, pretrained) ==
    [encoder |-> encoder, patch_size |-> 8, patch_overlap |-> 4,
     online_ft |-> online_ft, task |-> "cpc", dataset |-> dataset,
     num_workers |-> 4, learning_rate |-> "1e-4", data_dir |-> "",
     meta_root |-> "", batch_size |-> 32, amdim_task |-> amdim_task,
     pretrained |-> pretrained]

\* what a call leaves behind: a returned value or a raised exception
Return(op, arg, value) ==
    [op |-> op, arg |-> arg, kind |-> "return", exc |-> None,
     msg |-> <<>>, value |-> value]
Raise(op, arg, exc, msg) ==
    [op |-> op, arg |-> arg, kind |-> "raise", exc |-> exc,
     msg |-> msg, value |-> None]

\* a get_dataset whose error message forgets the name
get_dataset_NoName(hp, name) ==
    IF name \in SupportedDatasets
    THEN Return("get_dataset", name,
                [cls |-> name, data_dir |-> hp.data_dir,
                 meta_root |-> IF name = "imagenet128" THEN hp.meta_root ELSE None,
                 num_workers |-> hp.num_workers])
    ELSE Raise("get_dataset", name, "FileNotFoundError",
               <<"the dataset is not supported. Subclass 'get_dataset to provideyour own '">>)

\* CPCV2.get_dataset(name); the provider classes are named by their dataset
get_dataset(hp, name) ==
    IF name = "cifar10"
    THEN Return("get_dataset", name,
                [cls |-> "cifar10", data_dir |-> hp.data_dir,
                 meta_root |-> None, num_workers |-> hp.num_workers])
    ELSE IF name = "stl10"
    THEN Return("get_dataset", name,
                [cls |-> "stl10", data_dir |-> hp.data_dir,
                 meta_root |-> None, num_workers |-> hp.num_workers])
    ELSE IF name = "imagenet128"
    THEN Return("get_dataset", name,
                [cls |-> "imagenet128", data_dir |-> hp.data_dir,
                 meta_root |-> hp.meta_root, num_workers |-> hp.num_workers])
    ELSE Raise("get_dataset", name, "FileNotFoundError",
               <<"the ", name,
                 " dataset is not supported. Subclass 'get_dataset to provideyour own '">>)

\* ------------------------------------------------------ CPCV2: the encoder
\* self.hparams.encoder != 'cpc_encoder'
NotCpcEncoder(hp) == ~(hp.encoder.isstr /\ hp.encoder.v = "cpc_encoder")

\* CPCV2.init_encoder, c being the channel count of the network built
init_encoder(hp, c) ==
    IF ~NotCpcEncoder(hp)
    THEN [kind |-> "CPCResNet101", name |-> "cpc_encoder", out_c |-> c,
          all_maps |-> FALSE]
    ELSE [kind |-> "torchvision", name |-> hp.encoder.v, out_c |-> c,
          all_maps |-> hp.amdim_task]

\* the encoder object a caller passes in as a module instance
ModuleEncoder(arg, c) ==
    [kind |-> arg.v, name |-> "instance", out_c |-> c, all_maps |-> FALSE]

\* self.encoder(x) on n patches: the custom residual network returns one
\* tensor, a torchvision backbone returns the list of its feature maps
EncoderCall(enc, n) ==
    IF enc.kind = "CPCResNet101"
    THEN [islist |-> FALSE, maps |-> <<EncoderOutputShape(n, enc.out_c)>>]
    ELSE [islist |-> TRUE,
          maps |-> IF enc.all_maps
                   THEN <<EncoderOutputShape(n, enc.out_c),
                          EncoderOutputShape(n, enc.out_c)>>
                   ELSE <<EncoderOutputShape(n, enc.out_c)>>]

\* x[0]: the first element of a list, or the first row of a tensor
Index0(out) ==
    IF out.islist THEN out.maps[1]
    ELSE LET S == out.maps[1] IN
         IF ~S.ok \/ S.shape = <<>> \/ S.shape[1] = 0 THEN ShapeError
         ELSE Shape(Tail(S.shape))

\* the `if self.hparams.encoder != 'cpc_encoder': Z = Z[0]` of forward and
\* __compute_final_nb_c; a list that is not indexed has no squeeze()
SelectZ(hp, enc, out) ==
    IF NotCpcEncoder(hp) THEN Index0(out)
    ELSE IF out.islist THEN ShapeError
    ELSE out.maps[1]

\* CPCV2.forward on a batch of b images of p patches each: the size of Z
forward(hp, enc, b, p) ==
    RecoverShape(SelectZ(hp, enc, EncoderCall(enc, b * p)), b)

\* CPCV2.__compute_final_nb_c: c and h, or a failed reshape
compute_final_nb_c(hp, enc) ==
    LET dummy_batch == RecoverShape(
                          SelectZ(hp, enc, EncoderCall(enc, DummyB * DummyPatches)),
                          DummyB)
    IN  IF dummy_batch.ok
        THEN [ok |-> TRUE, c |-> dummy_batch.shape[2], h |-> dummy_batch.shape[3]]
        ELSE [ok |-> FALSE, c |-> 0, h |-> 0]

\* ------------------------------------------------ CPCV2: loaders and steps
Images(src) == [tag |-> "images", src |-> src]
Labels(src) == [tag |-> "labels", src |-> src]
Pair(a, b) == [tag |-> "pair", fst |-> a, snd |-> b]

\* a train_dataloader that hands out the mixed loader for every dataset
train_dataloader_AlwaysMixed(hp, dataset) ==
    [provider |-> dataset.cls, method |-> "train_dataloader_mixed",
     batch_size |-> hp.batch_size, transforms |-> "CPCTransformsSTL10Patches"]

\* CPCV2.train_dataloader
train_dataloader(hp, dataset) ==
    IF hp.dataset = "stl10"
    THEN [provider |-> dataset.cls, method |-> "train_dataloader_mixed",
          batch_size |-> hp.batch_size,
          transforms |-> "CPCTransformsSTL10Patches"]
    ELSE [provider |-> dataset.cls, method |-> "train_dataloader",
          batch_size |-> hp.batch_size,
          transforms |-> IF hp.dataset = "cifar10" THEN "CPCTransformsCIFAR10"
                         ELSE "CPCTransformsImageNet128Patches"]

\* CPCV2.val_dataloader
val_dataloader(hp, dataset) ==
    IF hp.dataset = "stl10"
    THEN [provider |-> dataset.cls, method |-> "val_dataloader_mixed",
          batch_size |-> hp.batch_size,
          transforms |-> "CPCTransformsSTL10Patches.test_transform"]
    ELSE [provider |-> dataset.cls, method |-> "val_dataloader",
          batch_size |-> hp.batch_size,
          transforms |-> IF hp.dataset = "cifar10"
                         THEN "CPCTransformsCIFAR10.test_transform"
                         ELSE "CPCTransformsImageNet128Patches.test_transform"]

IsMixed(loader) ==
    loader.method \in {"train_dataloader_mixed", "val_dataloader_mixed"}

\* one batch of a provider's loader: the mixed variants yield an
\* (unlabeled, labeled) pair of batches, the others one (images, labels)
BatchOf(loader) ==
    IF IsMixed(loader)
    THEN Pair(Pair(Images("unlabeled"), Labels("unlabeled")),
              Pair(Images("labeled"), Labels("labeled")))
    ELSE Pair(Images("batch"), Labels("batch"))

\* a tensor (its size) with the parameter groups its autograd graph reaches
Traced(T, graph) == [T |-> T, graph |-> graph]

\* self(img_1), outside or inside `with torch.no_grad()`
forward_traced(hp, enc, b, p, grad_enabled) ==
    Traced(forward(hp, enc, b, p),
           IF grad_enabled THEN {"encoder"} ELSE {})

\* Tensor.detach()
Detach(x) == Traced(x.T, {})

\* a probe input that keeps the graph of the encoder
ProbeLatent_Attached(hp, enc, b, p) == forward_traced(hp, enc, b, p, TRUE)

\* lines 222-226 of training_step: Z under no_grad, then z_in = Z.detach()
ProbeLatent(hp, enc, b, p) == Detach(forward_traced(hp, enc, b, p, FALSE))

\* a scalar loss: its value and the parameter groups it back-propagates to
Loss(val, graph) == [val |-> val, graph |-> graph]

\* z_in.reshape(Z.size(0), -1).size(1)
FlatWidth(T) == Numel(T.shape) \div T.shape[1]

\* a total that forgets to add the probe loss
TotalLoss_NceOnly(nce_loss, mlp_loss) == nce_loss

\* loss = nce_loss + mlp_loss
TotalLoss(nce_loss, mlp_loss) ==
    Loss(nce_loss.val + mlp_loss.val, nce_loss.graph \cup mlp_loss.graph)

\* CPCV2.training_step; `uses` records which images and labels fed the losses
training_step(hp, online_evaluator, enc, probe, batch, b, p, nce_val, mlp_val) ==
    LET arg == [b |-> b, p |-> p]
        stl == hp.dataset = "stl10"
    IN
    IF batch.tag # "pair"
    THEN Raise("training_step", arg, "TypeError", <<"batch is not a pair">>)
    ELSE
    LET labeled_batch == batch.snd
        batch1 == IF stl THEN batch.fst ELSE batch
    IN
    IF batch1.tag # "pair"
    THEN Raise("training_step", arg, "ValueError", <<"cannot unpack batch">>)
    ELSE
    LET img_1 == batch1.fst
        y == batch1.snd
    IN
    IF img_1.tag # "images"
    THEN Raise("training_step", arg, "AttributeError", <<"img_1.size()">>)
    ELSE
    LET Z == forward_traced(hp, enc, b, p, TRUE) IN
    IF ~Z.T.ok
    THEN Raise("training_step", arg, "RuntimeError", <<"shape mismatch in forward">>)
    ELSE
    LET nce_loss == Loss(nce_val, Z.graph \cup {"info_nce"}) IN
    IF ~online_evaluator
    THEN Return("training_step", arg,
                [loss |-> nce_loss,
                 log |-> [k \in {"train_nce_loss"} |-> nce_loss],
                 uses |-> [as_pair |-> stl, nce_on |-> img_1.src,
                           probe_on |-> None, probe_y |-> None]])
    ELSE
    IF stl /\ labeled_batch.tag # "pair"
    THEN Raise("training_step", arg, "ValueError", <<"cannot unpack labeled_batch">>)
    ELSE
    LET img_2 == IF stl THEN labeled_batch.fst ELSE img_1
        y_2 == IF stl THEN labeled_batch.snd ELSE y
    IN
    IF img_2.tag # "images"
    THEN Raise("training_step", arg, "AttributeError", <<"img_1.size()">>)
    ELSE
    LET z_in == ProbeLatent(hp, enc, b, p) IN
    IF FlatWidth(z_in.T) # probe.n_input
    THEN Raise("training_step", arg, "RuntimeError", <<"size mismatch in non_linear_evaluator">>)
    ELSE
    LET mlp_loss == Loss(mlp_val, z_in.graph \cup {"non_linear_evaluator"})
        loss == TotalLoss(nce_loss, mlp_loss)
    IN  Return("training_step", arg,
               [loss |-> loss,
                log |-> [k \in {"train_nce_loss", "train_mlp_loss"} |->
                           IF k = "train_nce_loss" THEN nce_loss ELSE mlp_loss],
                uses |-> [as_pair |-> stl, nce_on |-> img_1.src,
                          probe_on |-> img_2.src, probe_y |-> y_2.src]])

\* CPCV2.validation_step
validation_step(hp, online_evaluator, enc, probe, batch, b, p, nce_val, mlp_val) ==
    LET arg == [b |-> b, p |-> p]
        stl == hp.dataset = "stl10"
    IN
    IF batch.tag # "pair"
    THEN Raise("validation_step", arg, "TypeError", <<"batch is not a pair">>)
    ELSE
    LET labeled_batch == batch.snd
        batch1 == IF stl THEN batch.fst ELSE batch
    IN
    IF batch1.tag # "pair"
    THEN Raise("validation_step", arg, "ValueError", <<"cannot unpack batch">>)
    ELSE
    LET img_1 == batch1.fst
        y == batch1.snd
    IN
    IF img_1.tag # "images"
    THEN Raise("validation_step", arg, "AttributeError", <<"img_1.size()">>)
    ELSE
    LET Z == forward_traced(hp, enc, b, p, TRUE) IN
    IF ~Z.T.ok
    THEN Raise("validation_step", arg, "RuntimeError", <<"shape mismatch in forward">>)
    ELSE
    LET nce_loss == Loss(nce_val, Z.graph \cup {"info_nce"}) IN
    IF ~online_evaluator
    THEN Return("validation_step", arg,
                [result |-> [k \in {"val_nce"} |-> nce_loss],
                 uses |-> [as_pair |-> stl, nce_on |-> img_1.src,
                           probe_on |-> None, probe_y |-> None]])
    ELSE
    IF stl /\ labeled_batch.tag # "pair"
    THEN Raise("validation_step", arg, "ValueError", <<"cannot unpack labeled_batch">>)
    ELSE
    LET img_2 == IF stl THEN labeled_batch.fst ELSE img_1
        y_2 == IF stl THEN labeled_batch.snd ELSE y
    IN
    IF img_2.tag # "images"
    THEN Raise("validation_step", arg, "AttributeError", <<"img_1.size()">>)
    ELSE
    LET Z2 == forward_traced(hp, enc, b, p, TRUE) IN
    IF FlatWidth(Z2.T) # probe.n_input
    THEN Raise("validation_step", arg, "RuntimeError", <<"size mismatch in non_linear_evaluator">>)
    ELSE
    LET mlp_loss == Loss(mlp_val, Z2.graph \cup {"non_linear_evaluator"}) IN
    Return("validation_step", arg,
           [result |-> [k \in {"val_nce", "mlp_acc", "mlp_loss"} |->
                          IF k = "val_nce" THEN nce_loss
                          ELSE IF k = "mlp_loss" THEN mlp_loss
                          ELSE [accuracy_of |-> y_2.src]],
            uses |-> [as_pair |-> stl, nce_on |-> img_1.src,
                      probe_on |-> img_2.src, probe_y |-> y_2.src]])

\* ------------------------------------------------ CPCV2: the constructor
MaxEncC == 2

\* lines 103-107: self.online_evaluator, forced on by a pretrained name
online_evaluator_of(online_ft, pretrained) ==
    IF pretrained # None THEN TRUE ELSE online_ft

\* CPCV2.__init__: the fields of the new object, or the exception raised.
\* c is the channel count of the encoder that is built or passed in.
CPCV2_init(encoder, online_ft, ds, amdim_task, pretrained, c) ==
    LET hp0 == InitArgs(encoder, online_ft, ds, amdim_task, pretrained)
        given == pretrained # None
        hp == IF given
              THEN [hp0 EXCEPT !.dataset = "imagenet128",
                               !.encoder = Str(pretrained)]
              ELSE hp0
        online == online_evaluator_of(hp0.online_ft, pretrained)
        got == get_dataset(hp, hp.dataset)
    IN
    IF got.kind = "raise"
    THEN [ok |-> FALSE, raised |-> [got EXCEPT !.op = "CPCV2.__init__"]]
    ELSE
    LET enc == IF encoder.isstr THEN init_encoder(hp, c)
               ELSE ModuleEncoder(encoder, c)
        nb == compute_final_nb_c(hp, enc)
    IN
    IF ~nb.ok
    THEN [ok |-> FALSE,
          raised |-> Raise("CPCV2.__init__", hp.dataset, "RuntimeError",
                           <<"shape mismatch in __compute_final_nb_c">>)]
    ELSE [ok |-> TRUE, hparams |-> hp, online_evaluator |-> online,
          dataset |-> got.value, encoder |-> enc,
          info_nce |-> [num_input_channels |-> nb.c, target_dim |-> 64],
          non_linear_evaluator |->
              IF online
              THEN [n_input |-> nb.c * nb.h * nb.h,
                    n_classes |-> NumClasses(got.value.cls), n_hidden |-> 1024]
              ELSE [n_input |-> 0, n_classes |-> 0, n_hidden |-> 0]]

\* ------------------------------------------------------ pretrained weights
\* pl_bolts.utils.pretrained_weights.urls
urls ==
    [k \in {"vae-imagenet", "CPCV2-resnet18"} |->
        IF k = "vae-imagenet"
        THEN "https://pl-bolts-weights.s3.us-east-2.amazonaws.com/vae/version_0/checkpoints/epoch%3D2.ckpt"
        ELSE "https://pl-bolts-weights.s3.us-east-2.amazonaws.com/cpc/resnet18_version_6/checkpoints/epoch%3D85.ckpt"]

ClassNames == {None, "CPCV2-resnet18", "CPCV2-resnet50", "resnet18"}
LoadNames == {"resnet18", "resnet50", "cpc_encoder"}

\* the parameters of a freshly constructed model, and those of a checkpoint
InitWeights == [state_of |-> "init"]
CheckpointWeights(url) == [state_of |-> url]

NoIO == [warned |-> <<>>, fetched |-> <<>>]

\* before any call, and before a loader of the MNIST splits was made
NoCall == Return(None, None, None)
NoLoader == [method |-> None]

\* a lookup that falls back to the first checkpoint for an unknown name
utils_load_pretrained_Fallback(model_cls, w, class_name) ==
    LET cn == IF class_name = None THEN model_cls ELSE class_name
        url == IF cn \in DOMAIN urls THEN urls[cn] ELSE urls["vae-imagenet"]
    IN  [ret |-> Return("utils.load_pretrained", class_name, None),
         weights |-> CheckpointWeights(url),
         io |-> [warned |-> <<>>, fetched |-> <<url>>]]

\* pl_bolts.utils.pretrained_weights.load_pretrained(model, class_name) on a
\* model of class model_cls holding the weights w
utils_load_pretrained(model_cls, w, class_name) ==
    LET cn == IF class_name = None THEN model_cls ELSE class_name IN
    IF cn \notin DOMAIN urls
    THEN [ret |-> Raise("utils.load_pretrained", class_name, "KeyError", <<cn>>),
          weights |-> w, io |-> NoIO]
    ELSE [ret |-> Return("utils.load_pretrained", class_name, None),
          weights |-> CheckpointWeights(urls[cn]),
          io |-> [warned |-> <<>>, fetched |-> <<urls[cn]>>]]

\* f'CPCV2-{pretrained}'
CkptKey(pretrained) ==
    IF pretrained = "resnet18" THEN "CPCV2-resnet18"
    ELSE IF pretrained = "resnet50" THEN "CPCV2-resnet50"
    ELSE "CPCV2-cpc_encoder"

available_weights == {"resnet18"}

\* `available_weights not in available_weights`: a set of strings never
\* holds the set itself, so the test is always true
AvailableNotInAvailable == TRUE

\* CPCV2.load_pretrained(pretrained)
CPCV2_load_pretrained(w, pretrained) ==
    IF pretrained \in available_weights
    THEN LET r == utils_load_pretrained("CPCV2", w, CkptKey(pretrained)) IN
         [r EXCEPT !.ret.op = "CPCV2.load_pretrained", !.ret.arg = pretrained]
    ELSE IF AvailableNotInAvailable
    THEN [ret |-> Return("CPCV2.load_pretrained", pretrained, None),
          weights |-> w,
          io |-> [warned |-> <<<<pretrained, " not yet available">>>>,
                  fetched |-> <<>>]]
    ELSE [ret |-> Return("CPCV2.load_pretrained", pretrained, None),
          weights |-> w, io |-> NoIO]

\* ---------------------------------------------------------- LitMNISTModel
SplitTrain == 3
SplitVal == 1

\* len(MNIST(train=True)), the sum of the two split lengths
MnistTrainLen == SplitTrain + SplitVal

\* LitMNISTModel.__init__
LitMNIST_init(hidden_dim, batch_size) ==
    [hparams |-> [hidden_dim |-> hidden_dim, learning_rate |-> "1e-3",
                  batch_size |-> batch_size, num_workers |-> 4,
                  data_dir |-> ""],
     lit |-> [l1 |-> <<28 * 28, hidden_dim>>, l2 |-> <<hidden_dim, 10>>,
              mnist_train |-> None, mnist_val |-> None]]

\* random_split(dataset, [n_train, n_val]): the index sets a random
\* permutation of the dataset can put into the first part
RandomSplitFirst(n, n_train) ==
    {S \in SUBSET (1..n) : Cardinality(S) = n_train}

\* LitMNISTModel.forward on n images: logits of shape (n, 10)
Lit_forward(fields, n) == <<n, fields.l2[2]>>

VARIABLES rz_pc, rz_b, rz_c, rz_P, rz_Z, rz_out,
          cls, phase, hparams, hparams_init, online_evaluator, dataset,
          encoder, info_nce, non_linear_evaluator, lit, weights,
          train_loader, val_loader, ret, io

rz_vars == <<rz_pc, rz_b, rz_c, rz_P, rz_Z, rz_out>>

fields == <<hparams, online_evaluator, dataset, encoder, info_nce,
            non_linear_evaluator, lit>>

obj_vars == <<cls, phase, hparams_init, fields, weights,
              train_loader, val_loader, ret, io>>

vars == <<rz_vars, obj_vars>>

\* ------------------------------------------- the reshape on its own
RzIdle ==
    /\ rz_pc = "idle" /\ rz_b = 1 /\ rz_c = 1 /\ rz_P = 1
    /\ rz_Z = TensorError /\ rz_out = TensorError

\* no model object has been constructed yet
NoObject ==
    /\ cls = None /\ phase = "new"
    /\ hparams = None /\ hparams_init = None
    /\ online_evaluator = FALSE /\ dataset = None /\ encoder = None
    /\ info_nce = None /\ non_linear_evaluator = None /\ lit = None
    /\ weights = None /\ train_loader = NoLoader /\ val_loader = NoLoader
    /\ ret = NoCall /\ io = NoIO

InitReshape ==
    /\ rz_pc = "input"
    /\ rz_b \in 1..MaxB
    /\ rz_c \in 1..MaxC
    /\ rz_P \in 1..MaxPatches
    /\ rz_Z = EncoderOutput(rz_b * rz_P, rz_c)
    /\ rz_out = TensorError
    /\ NoObject

\* one call of __recover_z_shape on the drawn encoder output
Recover ==
    /\ rz_pc = "input"
    /\ rz_out' = RecoverZShape(rz_Z, rz_b)
    /\ rz_pc' = "done"
    /\ UNCHANGED <<rz_b, rz_c, rz_P, rz_Z, obj_vars>>

NextReshape == Recover

SpecReshape == InitReshape /\ [][NextReshape]_vars

\* ------------------------------------------------- the life of one model
MaxOutputs == 2

StepPatches == (1..MaxStepPatches) \cup {DummyPatches}

Init == RzIdle /\ NoObject

Ready(c) == cls = c /\ phase = "ready"

\* model = CPCV2(encoder, online_ft, dataset, amdim_task, pretrained)
New_CPCV2 ==
    /\ phase = "new"
    /\ \E encoder_arg \in EncoderArgs, online_ft \in BOOLEAN,
          ds \in DatasetNames, amdim_task \in {FALSE},
          pretrained \in PretrainedNames \cup {None}, c \in 1..MaxEncC :
          LET r == CPCV2_init(encoder_arg, online_ft, ds, amdim_task, pretrained, c) IN
          /\ cls' = "CPCV2"
          /\ IF r.ok
             THEN /\ phase' = "ready"
                  /\ hparams' = r.hparams
                  /\ hparams_init' = r.hparams
                  /\ online_evaluator' = r.online_evaluator
                  /\ dataset' = r.dataset
                  /\ encoder' = r.encoder
                  /\ info_nce' = r.info_nce
                  /\ non_linear_evaluator' = r.non_linear_evaluator
                  /\ weights' = InitWeights
                  /\ ret' = Return("CPCV2.__init__", pretrained, None)
             ELSE /\ phase' = "failed"
                  /\ ret' = r.raised
                  /\ UNCHANGED <<hparams, hparams_init, online_evaluator,
                                 dataset, encoder, info_nce,
                                 non_linear_evaluator, weights>>
    /\ io' = NoIO
    /\ UNCHANGED <<rz_vars, lit, train_loader, val_loader>>

\* model.get_dataset(name)
Call_get_dataset ==
    /\ Ready("CPCV2")
    /\ \E name \in DatasetNames : ret' = get_dataset(hparams, name)
    /\ io' = NoIO
    /\ UNCHANGED <<rz_vars, cls, phase, hparams_init, fields, weights,
                   train_loader, val_loader>>

\* model.load_pretrained(name)
Call_load_pretrained ==
    /\ Ready("CPCV2")
    /\ \E name \in LoadNames :
          LET r == CPCV2_load_pretrained(weights, name) IN
          /\ ret' = r.ret
          /\ weights' = r.weights
          /\ io' = r.io
    /\ UNCHANGED <<rz_vars, cls, phase, hparams_init, fields,
                   train_loader, val_loader>>

\* pl_bolts.utils.pretrained_weights.load_pretrained(model, class_name)
Call_utils_load_pretrained ==
    /\ phase = "ready"
    /\ \E class_name \in ClassNames :
          LET r == utils_load_pretrained(cls, weights, class_name) IN
          /\ ret' = r.ret
          /\ weights' = r.weights
          /\ io' = r.io
    /\ UNCHANGED <<rz_vars, cls, phase, hparams_init, fields,
                   train_loader, val_loader>>

\* model(img_1) on b images of p patches
Call_forward ==
    /\ Ready("CPCV2")
    /\ \E b \in 1..MaxB, p \in StepPatches :
          LET Z == forward(hparams, encoder, b, p) IN
          ret' = IF Z.ok
                 THEN Return("forward", [b |-> b, p |-> p], Z.shape)
                 ELSE Raise("forward", [b |-> b, p |-> p], "RuntimeError",
                            <<"shape mismatch in forward">>)
    /\ io' = NoIO
    /\ UNCHANGED <<rz_vars, cls, phase, hparams_init, fields, weights,
                   train_loader, val_loader>>

\* the trainer draws a batch from model.train_dataloader() and hands it
\* to training_step
Call_training_step ==
    /\ Ready("CPCV2")
    /\ \E b \in 1..MaxB, p \in StepPatches,
          nce_val \in 0..MaxLoss, mlp_val \in 0..MaxLoss :
          ret' = training_step(hparams, online_evaluator, encoder,
                               non_linear_evaluator,
                               BatchOf(train_dataloader(hparams, dataset)),
                               b, p, nce_val, mlp_val)
    /\ io' = NoIO
    /\ UNCHANGED <<rz_vars, cls, phase, hparams_init, fields, weights,
                   train_loader, val_loader>>

\* the trainer draws a batch from model.val_dataloader() and hands it to
\* validation_step
Call_validation_step ==
    /\ Ready("CPCV2")
    /\ \E b \in 1..MaxB, p \in StepPatches,
          nce_val \in 0..MaxLoss, mlp_val \in 0..MaxLoss :
          ret' = validation_step(hparams, online_evaluator, encoder,
                                 non_linear_evaluator,
                                 BatchOf(val_dataloader(hparams, dataset)),
                                 b, p, nce_val, mlp_val)
    /\ io' = NoIO
    /\ UNCHANGED <<rz_vars, cls, phase, hparams_init, fields, weights,
                   train_loader, val_loader>>

\* metrics.mean(outputs, key) / torch.stack([...]).mean()
Mean(outputs, key) == [mean_of |-> key, over |-> outputs]

\* CPCV2.validation_epoch_end(outputs)
validation_epoch_end(online, outputs) ==
    LET val_nce == Mean(outputs, "val_nce")
        log == IF online
               THEN [k \in {"val_nce_loss", "val_mlp_acc", "val_mlp_loss"} |->
                        IF k = "val_nce_loss" THEN val_nce
                        ELSE IF k = "val_mlp_acc" THEN Mean(outputs, "mlp_acc")
                        ELSE Mean(outputs, "mlp_loss")]
               ELSE [k \in {"val_nce_loss"} |-> val_nce]
    IN  Return("validation_epoch_end", Len(outputs),
               [val_loss |-> val_nce, log |-> log, progress_bar |-> log])

Call_validation_epoch_end ==
    /\ Ready("CPCV2")
    /\ \E n \in 1..MaxOutputs, v \in 0..MaxLoss :
          ret' = validation_epoch_end(online_evaluator, [i \in 1..n |-> v])
    /\ io' = NoIO
    /\ UNCHANGED <<rz_vars, cls, phase, hparams_init, fields, weights,
                   train_loader, val_loader>>

\* a configure_optimizers that writes a rescaled learning rate back
Call_configure_optimizers_Rescale ==
    /\ Ready("CPCV2")
    /\ hparams' = [hparams EXCEPT !.learning_rate = "2e-5"]
    /\ ret' = Return("configure_optimizers", None,
                     <<[opt |-> "Adam", lr |-> hparams'.learning_rate,
                        weight_decay |-> "1e-5", eps |-> "1e-7"]>>)
    /\ io' = NoIO
    /\ UNCHANGED <<rz_vars, cls, phase, hparams_init, online_evaluator,
                   dataset, encoder, info_nce, non_linear_evaluator, lit,
                   weights, train_loader, val_loader>>

\* CPCV2.configure_optimizers: the scheduler is built and dropped
Call_configure_optimizers ==
    /\ Ready("CPCV2")
    /\ ret' = Return("configure_optimizers", None,
                     <<[opt |-> "Adam", lr |-> hparams.learning_rate,
                        weight_decay |-> "1e-5", eps |-> "1e-7"]>>)
    /\ io' = NoIO
    /\ UNCHANGED <<rz_vars, cls, phase, hparams_init, fields, weights,
                   train_loader, val_loader>>

\* CPCV2.prepare_data: self.dataset.prepare_data()
Call_prepare_data ==
    /\ Ready("CPCV2")
    /\ ret' = Return("prepare_data", dataset.cls, None)
    /\ io' = NoIO
    /\ UNCHANGED <<rz_vars, cls, phase, hparams_init, fields, weights,
                   train_loader, val_loader>>

\* model.train_dataloader()
Call_train_dataloader ==
    /\ Ready("CPCV2")
    /\ ret' = Return("train_dataloader", None, train_dataloader(hparams, dataset))
    /\ io' = NoIO
    /\ UNCHANGED <<rz_vars, cls, phase, hparams_init, fields, weights,
                   train_loader, val_loader>>

\* model.val_dataloader()
Call_val_dataloader ==
    /\ Ready("CPCV2")
    /\ ret' = Return("val_dataloader", None, val_dataloader(hparams, dataset))
    /\ io' = NoIO
    /\ UNCHANGED <<rz_vars, cls, phase, hparams_init, fields, weights,
                   train_loader, val_loader>>

\* model = LitMNISTModel(hidden_dim, batch_size)
New_LitMNIST ==
    /\ phase = "new"
    /\ \E hidden_dim \in {64, 128}, batch_size \in {32, 64} :
          LET r == LitMNIST_init(hidden_dim, batch_size) IN
          /\ hparams' = r.hparams
          /\ hparams_init' = r.hparams
          /\ lit' = r.lit
    /\ cls' = "LitMNISTModel"
    /\ phase' = "ready"
    /\ weights' = InitWeights
    /\ ret' = Return("LitMNISTModel.__init__", None, None)
    /\ io' = NoIO
    /\ UNCHANGED <<rz_vars, online_evaluator, dataset, encoder, info_nce,
                   non_linear_evaluator, train_loader, val_loader>>

\* LitMNISTModel.forward(x)
Lit_Call_forward ==
    /\ Ready("LitMNISTModel")
    /\ \E n \in 1..MaxB : ret' = Return("forward", n, Lit_forward(lit, n))
    /\ io' = NoIO
    /\ UNCHANGED <<rz_vars, cls, phase, hparams_init, fields, weights,
                   train_loader, val_loader>>

\* F.cross_entropy(y_hat, y) on logits of shape (n, 10): a scalar v
Lit_cross_entropy(y_hat, v) == [val |-> v, of |-> y_hat]

\* LitMNISTModel.training_step(batch, batch_idx)
Lit_Call_training_step ==
    /\ Ready("LitMNISTModel")
    /\ \E n \in 1..MaxB, v \in 0..MaxLoss :
          LET y_hat == Lit_forward(lit, n)
              loss == Lit_cross_entropy(y_hat, v)
          IN  ret' = Return("training_step", n, [loss |-> loss,
                               log |-> [train_loss |-> loss],
                               progress_bar |-> [train_loss |-> loss]])
    /\ io' = NoIO
    /\ UNCHANGED <<rz_vars, cls, phase, hparams_init, fields, weights,
                   train_loader, val_loader>>

\* LitMNISTModel.validation_step(batch, batch_idx)
Lit_Call_validation_step ==
    /\ Ready("LitMNISTModel")
    /\ \E n \in 1..MaxB, v \in 0..MaxLoss :
          LET y_hat == Lit_forward(lit, n)
              loss == Lit_cross_entropy(y_hat, v)
          IN  ret' = Return("validation_step", n, [val_loss |-> loss])
    /\ io' = NoIO
    /\ UNCHANGED <<rz_vars, cls, phase, hparams_init, fields, weights,
                   train_loader, val_loader>>

\* LitMNISTModel.validation_epoch_end(outputs)
Lit_Call_validation_epoch_end ==
    /\ Ready("LitMNISTModel")
    /\ \E n \in 1..MaxOutputs, v \in 0..MaxLoss :
          LET avg_loss == Mean([i \in 1..n |-> v], "val_loss") IN
          ret' = Return("validation_epoch_end", n,
                        [avg_val_loss |-> avg_loss,
                         log |-> [val_loss |-> avg_loss],
                         progress_bar |-> [val_loss |-> avg_loss]])
    /\ io' = NoIO
    /\ UNCHANGED <<rz_vars, cls, phase, hparams_init, fields, weights,
                   train_loader, val_loader>>

\* LitMNISTModel.test_step(batch, batch_idx)
Lit_Call_test_step ==
    /\ Ready("LitMNISTModel")
    /\ \E n \in 1..MaxB, v \in 0..MaxLoss :
          LET y_hat == Lit_forward(lit, n)
              loss == Lit_cross_entropy(y_hat, v)
          IN  ret' = Return("test_step", n, [test_loss |-> loss])
    /\ io' = NoIO
    /\ UNCHANGED <<rz_vars, cls, phase, hparams_init, fields, weights,
                   train_loader, val_loader>>

\* LitMNISTModel.test_epoch_end(outputs)
Lit_Call_test_epoch_end ==
    /\ Ready("LitMNISTModel")
    /\ \E n \in 1..MaxOutputs, v \in 0..MaxLoss :
          LET avg_loss == Mean([i \in 1..n |-> v], "test_loss") IN
          ret' = Return("test_epoch_end", n,
                        [avg_test_loss |-> avg_loss,
                         log |-> [test_loss |-> avg_loss],
                         progress_bar |-> [test_loss |-> avg_loss]])
    /\ io' = NoIO
    /\ UNCHANGED <<rz_vars, cls, phase, hparams_init, fields, weights,
                   train_loader, val_loader>>

\* LitMNISTModel.configure_optimizers
Lit_Call_configure_optimizers ==
    /\ Ready("LitMNISTModel")
    /\ ret' = Return("configure_optimizers", None,
                     [opt |-> "Adam", lr |-> hparams.learning_rate])
    /\ io' = NoIO
    /\ UNCHANGED <<rz_vars, cls, phase, hparams_init, fields, weights,
                   train_loader, val_loader>>

\* LitMNISTModel.prepare_data: downloads the training set
Lit_Call_prepare_data ==
    /\ Ready("LitMNISTModel")
    /\ ret' = Return("prepare_data", hparams.data_dir, None)
    /\ io' = NoIO
    /\ UNCHANGED <<rz_vars, cls, phase, hparams_init, fields, weights,
                   train_loader, val_loader>>

\* LitMNISTModel.train_dataloader: the first part of a fresh random split
Lit_Call_train_dataloader ==
    /\ Ready("LitMNISTModel")
    /\ \E first \in RandomSplitFirst(MnistTrainLen, SplitTrain) :
          train_loader' = [subset |-> first,
                           batch_size |-> hparams.batch_size,
                           num_workers |-> hparams.num_workers]
    /\ ret' = Return("train_dataloader", None, train_loader')
    /\ io' = NoIO
    /\ UNCHANGED <<rz_vars, cls, phase, hparams_init, fields, weights,
                   val_loader>>

\* LitMNISTModel.val_dataloader: the second part of a fresh random split
Lit_Call_val_dataloader ==
    /\ Ready("LitMNISTModel")
    /\ \E first \in RandomSplitFirst(MnistTrainLen, SplitTrain) :
          val_loader' = [subset |-> (1..MnistTrainLen) \ first,
                         batch_size |-> hparams.batch_size,
                         num_workers |-> hparams.num_workers]
    /\ ret' = Return("val_dataloader", None, val_loader')
    /\ io' = NoIO
    /\ UNCHANGED <<rz_vars, cls, phase, hparams_init, fields, weights,
                   train_loader>>

\* LitMNISTModel.test_dataloader: the whole test set
Lit_Call_test_dataloader ==
    /\ Ready("LitMNISTModel")
    /\ ret' = Return("test_dataloader", None,
                     [subset |-> "test", batch_size |-> hparams.batch_size,
                      num_workers |-> hparams.num_workers])
    /\ io' = NoIO
    /\ UNCHANGED <<rz_vars, cls, phase, hparams_init, fields, weights,
                   train_loader, val_loader>>

Next ==
    \/ New_CPCV2
    \/ Call_get_dataset
    \/ Call_load_pretrained
    \/ Call_utils_load_pretrained
    \/ Call_forward
    \/ Call_training_step
    \/ Call_validation_step
    \/ Call_validation_epoch_end
    \/ Call_configure_optimizers
    \/ Call_prepare_data
    \/ Call_train_dataloader
    \/ Call_val_dataloader
    \/ New_LitMNIST
    \/ Lit_Call_forward
    \/ Lit_Call_training_step
    \/ Lit_Call_validation_step
    \/ Lit_Call_validation_epoch_end
    \/ Lit_Call_test_step
    \/ Lit_Call_test_epoch_end
    \/ Lit_Call_configure_optimizers
    \/ Lit_Call_prepare_data
    \/ Lit_Call_train_dataloader
    \/ Lit_Call_val_dataloader
    \/ Lit_Call_test_dataloader

Spec == Init /\ [][Next]_vars

\* ------------------------------------------------------------- properties
\* C1: get_dataset(name) returns the provider of name for 'cifar10', 'stl10'
\* and 'imagenet128'; for any other name it raises FileNotFoundError with
\* the name in the message, and returns no provider
GetDatasetContract ==
    ret.op = "get_dataset" =>
        IF ret.arg \in {"cifar10", "stl10", "imagenet128"}
        THEN ret.kind = "return" /\ ret.value.cls = ret.arg
        ELSE /\ ret.kind = "raise"
             /\ ret.exc = "FileNotFoundError"
             /\ \E i \in DOMAIN ret.msg : ret.msg[i] = ret.arg
             /\ ret.value = None

GetDatasetWitness ==
    ret.op = "get_dataset" /\ ret.arg = "mnist" /\ ret.kind = "raise"

\* C3: in a training_step with the probe, the encoder is reached by the
\* contrastive loss only and the probe loss reaches the probe's parameters
\* only, so the encoder's gradient from the total is that from the
\* contrastive loss alone
ProbeLossStaysOutOfEncoder ==
    (/\ cls = "CPCV2"
     /\ ret.op = "training_step" /\ ret.kind = "return"
     /\ "train_mlp_loss" \in DOMAIN ret.value.log) =>
        LET log == ret.value.log
            sources(g) == {k \in DOMAIN log : g \in log[k].graph}
        IN  /\ sources("encoder") = {"train_nce_loss"}
            /\ sources("non_linear_evaluator") = {"train_mlp_loss"}
            /\ log["train_mlp_loss"].graph = {"non_linear_evaluator"}
            /\ ret.value.loss.graph
                 = log["train_nce_loss"].graph \cup log["train_mlp_loss"].graph

ProbeLossWitness ==
    /\ cls = "CPCV2"
    /\ ret.op = "training_step" /\ ret.kind = "return"
    /\ online_evaluator
    /\ "train_mlp_loss" \in DOMAIN ret.value.log
    /\ "encoder" \in ret.value.loss.graph

\* C4: once a constructor has returned, hparams keeps the value it had at
\* that moment, whatever methods are called
HparamsNeverMutated ==
    phase = "ready" => hparams = hparams_init

HparamsWitness ==
    /\ phase = "ready" /\ cls = "CPCV2"
    /\ ret.op = "configure_optimizers"
    /\ weights # InitWeights

\* C5: a load for an unmapped name leaves the weights alone and fetches
\* nothing: CPCV2.load_pretrained warns '<name> not yet available' and
\* returns, the utils load_pretrained raises KeyError
UnmappedLoadLeavesWeights ==
    [][/\ (ret'.op = "CPCV2.load_pretrained" /\ ret'.arg \notin {"resnet18"}) =>
            /\ ret'.kind = "return"
            /\ io'.warned = <<<<ret'.arg, " not yet available">>>>
            /\ io'.fetched = <<>>
            /\ weights' = weights
       /\ (ret'.op = "utils.load_pretrained" /\ ret'.arg \notin DOMAIN urls) =>
            /\ ret'.kind = "raise"
            /\ ret'.exc = "KeyError"
            /\ io'.fetched = <<>>
            /\ weights' = weights]_vars

UnmappedLoadWitness ==
    /\ ret.op = "utils.load_pretrained" /\ ret.arg = "CPCV2-resnet50"
    /\ ret.kind = "raise"
    /\ weights # InitWeights

\* C6 as stated: when CPCV2(pretrained='resnet18') returns, the model holds
\* the state of the 'CPCV2-resnet18' checkpoint
PretrainedConstructorLoadsCheckpoint ==
    (ret.op = "CPCV2.__init__" /\ ret.kind = "return" /\ ret.arg = "resnet18") =>
        weights = CheckpointWeights(urls["CPCV2-resnet18"])

\* C7 as stated: the first feature map is taken exactly when the encoder in
\* use is a standard backbone, for every way of constructing the model
FirstMapIffBackbone ==
    (/\ cls = "CPCV2" /\ phase = "ready"
     /\ ret.op \in {"CPCV2.__init__", "forward"}) =>
        (NotCpcEncoder(hparams) <=> encoder.kind = "torchvision")

\* C9: training_step returns the contrastive loss plus the probe loss when
\* the online evaluator is on, which a pretrained name forces, and the
\* contrastive loss alone, with no 'train_mlp_loss' logged, when it is off
TrainingLossIsSum ==
    /\ (cls = "CPCV2" /\ phase = "ready" /\ hparams.pretrained # None) =>
          online_evaluator
    /\ (cls = "CPCV2" /\ ret.op = "training_step" /\ ret.kind = "return") =>
          LET log == ret.value.log IN
          IF online_evaluator
          THEN /\ DOMAIN log = {"train_nce_loss", "train_mlp_loss"}
               /\ ret.value.loss.val
                    = log["train_nce_loss"].val + log["train_mlp_loss"].val
          ELSE /\ DOMAIN log = {"train_nce_loss"}
               /\ ret.value.loss = log["train_nce_loss"]

TrainingLossWitness ==
    /\ cls = "CPCV2" /\ ret.op = "training_step" /\ ret.kind = "return"
    /\ hparams.pretrained = "resnet18" /\ ~hparams.online_ft
    /\ ret.value.loss.val = 2

\* C10: the loaders are the mixed ones exactly for 'stl10', and the steps
\* unpack a batch as an (unlabeled, labeled) pair exactly for 'stl10':
\* contrastive loss on the unlabeled images, probe on the labeled images and
\* labels; the other datasets feed one batch to both, and no step fails to
\* unpack the batch its loader yields
LoaderAndUnpackingAgree ==
    /\ (cls = "CPCV2" /\ ret.op \in {"train_dataloader", "val_dataloader"}) =>
          /\ IsMixed(ret.value) <=> (hparams.dataset = "stl10")
          /\ ret.value.provider = hparams.dataset
    /\ (cls = "CPCV2" /\ ret.op \in {"training_step", "validation_step"}) =>
          IF ret.kind = "raise" THEN ret.exc = "RuntimeError"
          ELSE LET u == ret.value.uses IN
               IF hparams.dataset = "stl10"
               THEN /\ u.as_pair
                    /\ u.nce_on = "unlabeled"
                    /\ online_evaluator =>
                          (u.probe_on = "labeled" /\ u.probe_y = "labeled")
               ELSE /\ ~u.as_pair
                    /\ u.nce_on = "batch"
                    /\ online_evaluator =>
                          (u.probe_on = "batch" /\ u.probe_y = "batch")

LoaderAndUnpackingWitness ==
    /\ cls = "CPCV2" /\ ret.op = "validation_step" /\ ret.kind = "return"
    /\ hparams.dataset = "stl10"
    /\ ret.value.uses.probe_on = "labeled"

\* C11 as stated: the probe's input width is channels * 7 * 7, fixed from
\* the dummy batch of 49 patches, and in training_step and validation_step
\* the flattened latent grid of a sample has that width exactly when the
\* batch has 49 patches per image
ProbeWidthFitsIff49Patches ==
    (cls = "CPCV2" /\ phase = "ready" /\ online_evaluator) =>
        /\ non_linear_evaluator.n_input = encoder.out_c * 7 * 7
        /\ \A b \in 1..MaxB, p \in StepPatches :
              LET Z == forward(hparams, encoder, b, p) IN
              Z.ok => ((FlatWidth(Z) = non_linear_evaluator.n_input)
                         <=> (p = DummyPatches))
        /\ (ret.op \in {"training_step", "validation_step"}) =>
              ((ret.kind = "return") <=> (ret.arg.p = DummyPatches))

\* C12 as stated: the subset served by train_dataloader and the subset
\* served by val_dataloader split the training set: they have the two split
\* lengths and, for every pair of calls, no sample in common
MnistSplitsDisjoint ==
    (/\ cls = "LitMNISTModel"
     /\ "subset" \in DOMAIN train_loader
     /\ "subset" \in DOMAIN val_loader) =>
        /\ Cardinality(train_loader.subset) = SplitTrain
        /\ Cardinality(val_loader.subset) = SplitVal
        /\ train_loader.subset \cap val_loader.subset = {}

IsSquare(n) == ISqrt(n) * ISqrt(n) = n

\* C2: for a square patch count P = k*k the recovered grid has shape
\* (b, c, k, k), as many elements as the input, and the channel vector of
\* input row i*P + j sits unchanged at position (j div k, j mod k) of item i
RecoverSquareGrid ==
    (rz_pc = "done" /\ IsSquare(rz_P)) =>
        LET k == ISqrt(rz_P) IN
        /\ rz_out.ok
        /\ rz_out.shape = <<rz_b, rz_c, k, k>>
        /\ Numel(rz_out.shape) = Numel(rz_Z.shape)
        /\ \A i \in 0..(rz_b - 1), j \in 0..(rz_P - 1), ch \in 0..(rz_c - 1) :
              At(rz_out, <<i, ch, j \div k, j % k>>)
                = At(rz_Z, <<i * rz_P + j, ch, 0, 0>>)

RecoverSquareGridWitness ==
    rz_pc = "done" /\ rz_P = 4 /\ rz_b = 2 /\ rz_c = 2 /\ rz_out.ok

\* C8 as stated: a non-square patch count never yields a grid
NonSquareAlwaysFails ==
    (rz_pc = "done" /\ ~IsSquare(rz_P)) => ~rz_out.ok

\* C8 amended: for a non-square patch count P with nb = floor(sqrt(P)) the
\* recovery fails exactly when c*P is not a multiple of nb*nb; otherwise it
\* returns a grid (b, c*P / (nb*nb), nb, nb) whose channel count is not c
NonSquareFailsIffIndivisible ==
    (rz_pc = "done" /\ ~IsSquare(rz_P)) =>
        LET nb == ISqrt(rz_P) IN
        /\ rz_out.ok <=> ((rz_c * rz_P) % (nb * nb) = 0)
        /\ rz_out.ok =>
              /\ rz_out.shape = <<rz_b, (rz_c * rz_P) \div (nb * nb), nb, nb>>
              /\ rz_out.shape[2] # rz_c

NonSquareFailsWitness ==
    rz_pc = "done" /\ rz_P = 5 /\ rz_c = 1 /\ ~rz_out.ok

====
